---- MODULE Spec2Model ----
(***************************************************************************)
(* Model of the Black-Scholes-Merton parameter container OptionInputs of   *)
(* src/src/lib.rs: its constructor, the two populate operations            *)
(* (with_implied_vol, with_price) and its readers (discounts, accessors    *)
(* and the closed-form Greeks).                                            *)
(*                                                                         *)
(* f64 values are modelled in exact real arithmetic.  A value is either    *)
(* NaN or a finite real  base * (n/d) * e^x  with n, d, x integers and     *)
(* base an uninterpreted term (ln, sqrt, the normal cdf, sums of unlike    *)
(* terms, the external pricer's result); base = One for a plain number.    *)
(* Products, quotients and exponentials of such values are exact, so the   *)
(* discount factors exp(-r*t), exp(r*t), exp(-q*t) combine as they do over *)
(* the reals.  Rounding and overflow are outside the model.  A non-finite   *)
(* result (x/0, ln 0) is folded into NaN: the code tells values apart only *)
(* by is_finite and by > 0.0, and the explored inputs (s, k, t, vol > 0)   *)
(* produce no zero divisor.  NaN is one value here, so "still NaN" is      *)
(* written as equality.                                                    *)
(***************************************************************************)
EXTENDS Integers, Sequences

VARIABLES opt, call, arg, pre, ret, last_populate

vars == <<opt, call, arg, pre, ret, last_populate>>

(***************************************************************************)
(* Bounds of the explored inputs.                                          *)
(***************************************************************************)
MaxRate == 1
MaxT == 2
MaxVol == 2

\* contract terms of the test fixtures (tests/bstest.rs)
SpotTest == 100
StrikeOTM == 110
StrikeITM == 90

(***************************************************************************)
(* f64 values.                                                             *)
(***************************************************************************)
One == <<"1">>

NaN == [nan |-> TRUE, base |-> One, n |-> 0, d |-> 1, e |-> 0]

RECURSIVE GCD(_, _)
GCD(a, b) == IF b = 0 THEN a ELSE GCD(b, a % b)

Abs(i) == IF i < 0 THEN -i ELSE i

\* base * (n/d) * e^x in lowest terms, d > 0; zero is the plain number 0
Norm(base, n, d, x) ==
    IF n = 0
    THEN [nan |-> FALSE, base |-> One, n |-> 0, d |-> 1, e |-> 0]
    ELSE LET g == GCD(Abs(n), Abs(d))
             sg == IF d < 0 THEN -1 ELSE 1
         IN [nan |-> FALSE, base |-> base, n |-> sg * (n \div g),
             d |-> sg * (d \div g), e |-> x]

Num(i) == Norm(One, i, 1, 0)
Rat(i, j) == Norm(One, i, j, 0)
Atom(term) == [nan |-> FALSE, base |-> term, n |-> 1, d |-> 1, e |-> 0]

IsNaN(x) == x.nan
IsFinite(x) == ~x.nan
IsPlain(x) == ~x.nan /\ x.base = One /\ x.e = 0
\* x > 0.0 (false for NaN); decided for plain multiples of e^x only
IsPositive(x) == ~x.nan /\ x.base = One /\ x.n > 0
IsNegative(x) == ~x.nan /\ x.base = One /\ x.n < 0

Mul(a, b) ==
    IF a.nan \/ b.nan THEN NaN
    ELSE Norm(IF a.base = One THEN b.base
              ELSE IF b.base = One THEN a.base
              ELSE <<"mul", a.base, b.base>>,
              a.n * b.n, a.d * b.d, a.e + b.e)

Div(a, b) ==
    IF a.nan \/ b.nan \/ b.n = 0 THEN NaN
    ELSE Norm(IF b.base = One THEN a.base ELSE <<"div", a.base, b.base>>,
              a.n * b.d, a.d * b.n, a.e - b.e)

Neg(a) == Mul(Num(-1), a)

Add(a, b) ==
    IF a.nan \/ b.nan THEN NaN
    ELSE IF a.n = 0 THEN b
    ELSE IF b.n = 0 THEN a
    ELSE IF a.base = b.base /\ a.e = b.e
         THEN Norm(a.base, a.n * b.d + b.n * a.d, a.d * b.d, a.e)
    ELSE Atom(<<"add", a, b>>)

Sub(a, b) == Add(a, Neg(b))

\* f64::exp: exact on integers, e^i
Exp(x) ==
    IF x.nan THEN NaN
    ELSE IF IsPlain(x) /\ x.d = 1
         THEN [nan |-> FALSE, base |-> One, n |-> 1, d |-> 1, e |-> x.n]
    ELSE Atom(<<"exp", x>>)

\* f64::ln: ln(1) = 0, not finite at or below zero
Ln(x) ==
    IF x.nan \/ IsNegative(x) \/ x.n = 0 THEN NaN
    ELSE IF x = Num(1) THEN Num(0)
    ELSE Atom(<<"ln", x>>)

\* f64::sqrt: NaN below zero
Sqrt(x) ==
    IF x.nan \/ IsNegative(x) THEN NaN
    ELSE IF x.n = 0 THEN Num(0)
    ELSE Atom(<<"sqrt", x>>)

\* f64::powi(2) and f64::powf(2.0)
Square(x) == Mul(x, x)

\* statrs Normal::new(0.0, 1.0).cdf
Cdf(x) == IF x.nan THEN NaN ELSE Atom(<<"cdf", x>>)

SQRT_2PI == Atom(<<"SQRT_2PI">>)
DAYS_PER_YEAR == Rat(1461, 4)

calculate_npdf(x) == Div(Exp(Mul(Mul(Rat(-1, 2), x), x)), SQRT_2PI)

(***************************************************************************)
(* The external module lets_be_rational (not part of the sources): the     *)
(* undiscounted pricer and the implied-volatility solver, its inverse.     *)
(***************************************************************************)
Vols == {Num(v) : v \in 1..MaxVol}

black(forward, k, vol, t, theta) ==
    IF forward.nan \/ k.nan \/ vol.nan \/ t.nan \/ theta.nan THEN NaN
    ELSE Atom(<<"black", forward, k, vol, t, theta>>)

\* a positive volatility when the price is black's at that volatility;
\* otherwise a failure value: NaN for NaN, negative below zero, else zero
implied_volatility_from_a_transformed_rational_guess(p, forward, k, t, theta) ==
    IF \E v \in Vols : black(forward, k, v, t, theta) = p /\ ~p.nan
    THEN CHOOSE v \in Vols : black(forward, k, v, t, theta) = p
    ELSE IF p.nan THEN NaN
    ELSE IF IsNegative(p) THEN Num(-1)
    ELSE Num(0)

(***************************************************************************)
(* OptionInputs.                                                           *)
(***************************************************************************)
sign(self) == IF self.is_call THEN Num(1) ELSE Num(-1)

dividend_discount(self) == Exp(Mul(Neg(self.q), self.t))

rate_discount(self) == Exp(Mul(Neg(self.r), self.t))

\* mutant of new: the derived fields start at 0.0 instead of NaN
new_zeroed(is_call, s, k, r, q, t) ==
    [is_call |-> is_call, s |-> s, k |-> k, r |-> r, q |-> q, t |-> t,
     implied_vol |-> Num(0), price |-> Num(0),
     d1 |-> Num(0), d2 |-> Num(0), nd1 |-> Num(0), nd2 |-> Num(0),
     nprimed1 |-> Num(0), nprimed2 |-> Num(0)]

new(is_call, s, k, r, q, t) ==
    [is_call |-> is_call, s |-> s, k |-> k, r |-> r, q |-> q, t |-> t,
     implied_vol |-> NaN, price |-> NaN,
     d1 |-> NaN, d2 |-> NaN, nd1 |-> NaN, nd2 |-> NaN,
     nprimed1 |-> NaN, nprimed2 |-> NaN]

\* mutant of with_implied_vol: black is handed the spot, not the forward
with_implied_vol_spot(self, implied_vol) ==
    LET numerator == Add(Ln(Div(self.s, self.k)),
                         Mul(Add(Sub(self.r, self.q),
                                 Div(Square(implied_vol), Num(2))),
                             self.t))
        denominator == Mul(implied_vol, Sqrt(self.t))
        d1 == Div(numerator, denominator)
        d2 == Sub(d1, denominator)
        forward == Mul(self.s, Exp(Mul(Sub(self.r, self.q), self.t)))
        undiscounted_price ==
            black(self.s, self.k, implied_vol, self.t, sign(self))
    IN [self EXCEPT
          !.implied_vol = implied_vol,
          !.d1 = d1,
          !.d2 = d2,
          !.nd1 = Cdf(Mul(sign(self), d1)),
          !.nd2 = Cdf(Mul(sign(self), d2)),
          !.nprimed1 = calculate_npdf(d1),
          !.nprimed2 = calculate_npdf(d2),
          !.price = IF ~IsFinite(self.price)
                    THEN Mul(undiscounted_price, rate_discount(self))
                    ELSE self.price]

\* mutant of with_implied_vol: nprimed2 is never assigned
with_implied_vol_skips_nprimed2(self, implied_vol) ==
    LET numerator == Add(Ln(Div(self.s, self.k)),
                         Mul(Add(Sub(self.r, self.q),
                                 Div(Square(implied_vol), Num(2))),
                             self.t))
        denominator == Mul(implied_vol, Sqrt(self.t))
        d1 == Div(numerator, denominator)
        d2 == Sub(d1, denominator)
        forward == Mul(self.s, Exp(Mul(Sub(self.r, self.q), self.t)))
        undiscounted_price ==
            black(forward, self.k, implied_vol, self.t, sign(self))
    IN [self EXCEPT
          !.implied_vol = implied_vol,
          !.d1 = d1,
          !.d2 = d2,
          !.nd1 = Cdf(Mul(sign(self), d1)),
          !.nd2 = Cdf(Mul(sign(self), d2)),
          !.nprimed1 = calculate_npdf(d1),
          !.price = IF ~IsFinite(self.price)
                    THEN Mul(undiscounted_price, rate_discount(self))
                    ELSE self.price]

with_implied_vol(self, implied_vol) ==
    LET numerator == Add(Ln(Div(self.s, self.k)),
                         Mul(Add(Sub(self.r, self.q),
                                 Div(Square(implied_vol), Num(2))),
                             self.t))
        denominator == Mul(implied_vol, Sqrt(self.t))
        d1 == Div(numerator, denominator)
        d2 == Sub(d1, denominator)
        forward == Mul(self.s, Exp(Mul(Sub(self.r, self.q), self.t)))
        undiscounted_price ==
            black(forward, self.k, implied_vol, self.t, sign(self))
    IN [self EXCEPT
          !.implied_vol = implied_vol,
          !.d1 = d1,
          !.d2 = d2,
          !.nd1 = Cdf(Mul(sign(self), d1)),
          !.nd2 = Cdf(Mul(sign(self), d2)),
          !.nprimed1 = calculate_npdf(d1),
          !.nprimed2 = calculate_npdf(d2),
          !.price = IF ~IsFinite(self.price)
                    THEN Mul(undiscounted_price, rate_discount(self))
                    ELSE self.price]

\* lines 130-131: the local p that shadows the parameter
with_price_p(self, p) == Mul(p, Exp(Mul(self.r, self.t)))

\* mutant of with_price_vol: the forward leaves out the dividend discount
with_price_vol_no_dividend(self, p) ==
    LET rate_inv_discount == Exp(Mul(self.r, self.t))
        f == Mul(self.s, rate_inv_discount)
    IN implied_volatility_from_a_transformed_rational_guess(
           with_price_p(self, p), f, self.k, self.t, sign(self))

\* lines 130-146: the candidate volatility the solver returns
with_price_vol(self, p) ==
    LET rate_inv_discount == Exp(Mul(self.r, self.t))
        f == Mul(Mul(self.s, rate_inv_discount), dividend_discount(self))
    IN implied_volatility_from_a_transformed_rational_guess(
           with_price_p(self, p), f, self.k, self.t, sign(self))

\* mutant of with_price: price is stored before the solver's result is tested
with_price_stores_first(self, p) ==
    LET implied_vol == with_price_vol(self, p)
        stored == [self EXCEPT !.price = with_price_p(self, p)]
    IN IF IsPositive(implied_vol)
       THEN with_implied_vol(stored, implied_vol)
       ELSE stored

\* mutant of with_price: the dividend-adjusted spot is written back to s
with_price_sets_spot(self, p) ==
    LET implied_vol == with_price_vol(self, p)
        adjusted == [self EXCEPT !.s = Mul(self.s, dividend_discount(self))]
    IN IF IsPositive(implied_vol)
       THEN with_implied_vol([adjusted EXCEPT !.price = with_price_p(self, p)],
                             implied_vol)
       ELSE adjusted

with_price(self, p) ==
    LET implied_vol == with_price_vol(self, p)
    IN IF IsPositive(implied_vol)
       THEN with_implied_vol([self EXCEPT !.price = with_price_p(self, p)],
                             implied_vol)
       ELSE self

implied_vol(self) == self.implied_vol

price(self) == self.price

delta(self) == Mul(Mul(sign(self), self.nd1), dividend_discount(self))

gamma(self) ==
    Div(Mul(dividend_discount(self), self.nprimed1),
        Mul(Mul(self.s, self.implied_vol), Sqrt(self.t)))

theta(self) ==
    LET dd == dividend_discount(self)
    IN Div(Add(Sub(Neg(Div(Mul(Mul(Mul(self.s, self.implied_vol), dd),
                               self.nprimed1),
                           Mul(Num(2), Sqrt(self.t)))),
                   Mul(Mul(Mul(Mul(sign(self), self.r), self.k),
                           rate_discount(self)), self.nd2)),
               Mul(Mul(Mul(Mul(sign(self), self.q), self.s), dd), self.nd1)),
           DAYS_PER_YEAR)

vega(self) ==
    Mul(Mul(Mul(Mul(Rat(1, 100), self.s), dividend_discount(self)),
            Sqrt(self.t)), self.nprimed1)

rho(self) ==
    Mul(Mul(Mul(Mul(Mul(sign(self), Rat(1, 100)), self.k), self.t),
            rate_discount(self)), self.nd2)

epsilon(self) ==
    Mul(Mul(Mul(Mul(Neg(sign(self)), self.s), self.t),
            dividend_discount(self)), self.nd1)

lambda(self) == Div(Mul(delta(self), self.s), self.price)

vanna(self) ==
    Div(Mul(Mul(Mul(self.d2, dividend_discount(self)), self.nprimed1),
            Rat(-1, 100)),
        self.implied_vol)

charm(self) ==
    LET dd == dividend_discount(self)
    IN Sub(Mul(Mul(Mul(sign(self), self.q), dd), self.nd1),
           Div(Mul(Mul(dd, self.nprimed1),
                   Sub(Mul(Mul(Num(2), Sub(self.r, self.q)), self.t),
                       Mul(Mul(self.d2, self.implied_vol), Sqrt(self.t)))),
               Mul(Mul(Mul(Num(2), self.t), self.implied_vol), Sqrt(self.t))))

veta(self) ==
    Mul(Mul(Mul(Mul(Neg(self.s), dividend_discount(self)), self.nprimed1),
            Sqrt(self.t)),
        Sub(Add(self.q,
                Div(Mul(Sub(self.r, self.q), self.d1),
                    Mul(self.implied_vol, Sqrt(self.t)))),
            Div(Add(Num(1), Mul(self.d1, self.d2)), Mul(Num(2), self.t))))

vomma(self) ==
    Div(Mul(Mul(vega(self), self.d1), self.d2), self.implied_vol)

speed(self) ==
    Mul(Div(Neg(gamma(self)), self.s),
        Add(Div(self.d1, Mul(self.implied_vol, Sqrt(self.t))), Num(1)))

zomma(self) ==
    Mul(gamma(self),
        Div(Sub(Mul(self.d1, self.d2), Num(1)), self.implied_vol))

color(self) ==
    Mul(Mul(Neg(dividend_discount(self)),
            Div(self.nprimed1,
                Mul(Mul(Mul(Mul(Num(2), self.s), self.t), self.implied_vol),
                    Sqrt(self.t)))),
        Add(Add(Mul(Mul(Num(2), self.q), self.t), Num(1)),
            Mul(Div(Sub(Mul(Mul(Num(2), Sub(self.r, self.q)), self.t),
                        Mul(Mul(self.d2, self.implied_vol), Sqrt(self.t))),
                    Mul(self.implied_vol, Sqrt(self.t))),
                self.d1)))

ultima(self) ==
    Mul(Div(Neg(vega(self)), Mul(self.implied_vol, self.implied_vol)),
        Add(Add(Mul(Mul(self.d1, self.d2),
                    Sub(Num(1), Mul(self.d1, self.d2))),
                Square(self.d1)),
            Square(self.d2)))

dual_delta(self) ==
    Mul(Mul(Neg(sign(self)), dividend_discount(self)), self.nd2)

dual_gamma(self) ==
    Mul(dividend_discount(self),
        Div(self.nprimed2,
            Mul(Mul(self.k, self.implied_vol), Sqrt(self.t))))

(***************************************************************************)
(* State machine: one container, the operations applied to it.             *)
(***************************************************************************)
\* r and q: zero and the largest rate; t: one year and the longest maturity
Rates == {Num(0), Num(MaxRate)}
Maturities == {Num(1), Num(MaxT)}
Spots == {Num(SpotTest)}
Strikes == {Num(StrikeOTM), Num(StrikeITM)}

Fresh(self) == new(self.is_call, self.s, self.k, self.r, self.q, self.t)

\* prices a caller may supply: the prices of the explored volatilities, the
\* price currently stored, and prices no volatility produces
PriceInputs(self) ==
    {with_implied_vol(Fresh(self), v).price : v \in Vols}
    \cup {self.price, Num(0), Num(-1), NaN}

NoPopulate == [op |-> "none", arg |-> NaN]

Init ==
    /\ opt \in {new(c, s, k, r, q, t) :
                  c \in BOOLEAN, s \in Spots, k \in Strikes,
                  r \in Rates, q \in Rates, t \in Maturities}
    /\ call = "new"
    /\ arg = NaN
    /\ pre = opt
    /\ ret = NaN
    /\ last_populate = NoPopulate

WithImpliedVol ==
    \E v \in Vols :
        /\ opt' = with_implied_vol(opt, v)
        /\ call' = "with_implied_vol"
        /\ arg' = v
        /\ pre' = opt
        /\ ret' = NaN
        /\ last_populate' = [op |-> "with_implied_vol", arg |-> v]

WithPrice ==
    \E p \in PriceInputs(opt) :
        /\ opt' = with_price(opt, p)
        /\ call' = "with_price"
        /\ arg' = p
        /\ pre' = opt
        /\ ret' = NaN
        /\ last_populate' = IF IsPositive(with_price_vol(opt, p))
                            THEN [op |-> "with_price", arg |-> p]
                            ELSE last_populate

\* a reader (&self): returns a value, leaves the container as it is
Reader(name, value) ==
    /\ opt' = opt
    /\ call' = name
    /\ arg' = NaN
    /\ pre' = opt
    /\ ret' = value
    /\ last_populate' = last_populate

ReadSign == Reader("sign", sign(opt))
ReadDividendDiscount == Reader("dividend_discount", dividend_discount(opt))
ReadRateDiscount == Reader("rate_discount", rate_discount(opt))
ReadImpliedVol == Reader("implied_vol", implied_vol(opt))
ReadPrice == Reader("price", price(opt))
ReadDelta == Reader("delta", delta(opt))
ReadGamma == Reader("gamma", gamma(opt))
ReadTheta == Reader("theta", theta(opt))
ReadVega == Reader("vega", vega(opt))
ReadRho == Reader("rho", rho(opt))
ReadEpsilon == Reader("epsilon", epsilon(opt))
ReadLambda == Reader("lambda", lambda(opt))
ReadVanna == Reader("vanna", vanna(opt))
ReadCharm == Reader("charm", charm(opt))
ReadVeta == Reader("veta", veta(opt))
ReadVomma == Reader("vomma", vomma(opt))
ReadSpeed == Reader("speed", speed(opt))
ReadZomma == Reader("zomma", zomma(opt))
ReadColor == Reader("color", color(opt))
ReadUltima == Reader("ultima", ultima(opt))
ReadDualDelta == Reader("dual_delta", dual_delta(opt))
ReadDualGamma == Reader("dual_gamma", dual_gamma(opt))

ReaderNames ==
    {"sign", "dividend_discount", "rate_discount", "implied_vol",
     "price", "delta", "gamma", "theta",
     "vega", "rho", "epsilon", "lambda",
     "vanna", "charm", "veta", "vomma",
     "speed", "zomma", "color", "ultima",
     "dual_delta", "dual_gamma"}

Next ==
    \/ WithImpliedVol
    \/ WithPrice
    \/ ReadSign
    \/ ReadDividendDiscount
    \/ ReadRateDiscount
    \/ ReadImpliedVol
    \/ ReadPrice
    \/ ReadDelta
    \/ ReadGamma
    \/ ReadTheta
    \/ ReadVega
    \/ ReadRho
    \/ ReadEpsilon
    \/ ReadLambda
    \/ ReadVanna
    \/ ReadCharm
    \/ ReadVeta
    \/ ReadVomma
    \/ ReadSpeed
    \/ ReadZomma
    \/ ReadColor
    \/ ReadUltima
    \/ ReadDualDelta
    \/ ReadDualGamma

Spec == Init /\ [][Next]_vars

(***************************************************************************)
(* Groups of fields.                                                       *)
(***************************************************************************)
ParamsOf(self) == <<self.is_call, self.s, self.k, self.r, self.q, self.t>>

Cached(self) ==
    <<self.d1, self.d2, self.nd1, self.nd2, self.nprimed1, self.nprimed2>>

Derived(self) == <<self.implied_vol, self.price>> \o Cached(self)

AllUnset(self) == \A i \in 1..8 : IsNaN(Derived(self)[i])
AllSet(self) == \A i \in 1..8 : IsFinite(Derived(self)[i])

GreekNames == ReaderNames \ {"sign", "dividend_discount", "rate_discount",
                             "implied_vol", "price"}

\* the last with_price call found a volatility / found none
WithPriceSucceeded == call = "with_price" /\ IsPositive(with_price_vol(pre, arg))
WithPriceFailed == call = "with_price" /\ ~IsPositive(with_price_vol(pre, arg))

\* s * e^((r-q)*t) and black(F, k, v, t, sign) * e^(-r*t), written out from
\* the contract parameters
ForwardOf(self) ==
    [nan |-> FALSE, base |-> One, n |-> self.s.n, d |-> 1,
     e |-> (self.r.n - self.q.n) * self.t.n]

DiscountedBlack(self, v) ==
    [nan |-> FALSE,
     base |-> <<"black", ForwardOf(self), self.k, v, self.t,
                Num(IF self.is_call THEN 1 ELSE -1)>>,
     n |-> 1, d |-> 1, e |-> -(self.r.n * self.t.n)]

(***************************************************************************)
(* Claims.                                                                 *)
(***************************************************************************)

\* C1: whenever implied_vol is set, d1, d2, nd1, nd2, nprimed1, nprimed2 and
\* price are all the values derived from that same current implied_vol
\* (price = black(F, k, implied_vol, t, sign) * rate_discount()).
C1_DerivedFromCurrentVol ==
    IsFinite(opt.implied_vol) =>
        /\ Cached(opt) = Cached(with_implied_vol(Fresh(opt), opt.implied_vol))
        /\ opt.price = DiscountedBlack(opt, opt.implied_vol)

\* C2: when with_price(p) succeeds, the stored price is exactly the
\* caller-supplied discounted price p.
C2_StoredPriceIsCallerPrice ==
    WithPriceSucceeded => opt.price = arg

\* C3: when with_price(p) fails (the solver returns a non-positive or NaN
\* volatility), all eight Derived State fields are left as they were.
C3_FailedWithPriceIsNoOp ==
    WithPriceFailed => Derived(opt) = Derived(pre)

C3_Witness ==
    /\ WithPriceFailed
    /\ AllSet(pre)
    /\ arg # pre.price

\* C4: the Derived State left by the last successful populate operation
\* equals the Derived State that same single operation gives on a freshly
\* constructed container with the same Contract Parameters.
C4_NoHistory ==
    /\ last_populate.op = "with_implied_vol" =>
           Derived(opt) = Derived(with_implied_vol(Fresh(opt), last_populate.arg))
    /\ last_populate.op = "with_price" =>
           Derived(opt) = Derived(with_price(Fresh(opt), last_populate.arg))

\* C5: round trip: with_price fed the price that with_implied_vol(vol)
\* computes for the same Contract Parameters recovers implied_vol = vol.
C5_RoundTrip ==
    \A v \in Vols :
        (call = "with_price" /\ arg = DiscountedBlack(pre, v))
            => opt.implied_vol = v

C5_Witness ==
    /\ call = "with_price"
    /\ AllUnset(pre)
    /\ \E v \in Vols : arg = with_implied_vol(Fresh(pre), v).price
                       /\ opt.implied_vol = v
    /\ opt.r # Num(0)
    /\ opt.q # Num(0)

\* C6: on a container whose price is unset, with_implied_vol(v) sets
\* implied_vol to v and price to black(F, k, v, t, sign) * rate_discount(),
\* F = s * exp((r-q)*t), for calls and puts.
C6_FreshPriceIsDiscountedBlack ==
    (call = "with_implied_vol" /\ ~IsFinite(pre.price)) =>
        /\ opt.implied_vol = arg
        /\ opt.price = DiscountedBlack(pre, arg)

C6_Witness ==
    /\ call = "with_implied_vol"
    /\ AllUnset(pre)
    /\ ~opt.is_call
    /\ opt.r # Num(0)
    /\ opt.r # opt.q
    /\ IsFinite(opt.price)

\* C7: construction leaves implied_vol, price and the six cached quantities
\* NaN, and every Greek read before any successful populate returns NaN.
C7_UnsetReadsNaN ==
    /\ call = "new" => AllUnset(opt)
    /\ (call \in GreekNames /\ AllUnset(pre)) => IsNaN(ret)

C7_Witness ==
    /\ call = "ultima"
    /\ AllUnset(pre)
    /\ IsNaN(ret)

\* C8: no operation changes the Contract Parameters, and the readers leave
\* the whole container unchanged.
C8_Frame ==
    /\ ParamsOf(opt) = ParamsOf(pre)
    /\ call \in ReaderNames => opt = pre

C8_Witness ==
    /\ WithPriceSucceeded
    /\ AllSet(pre)
    /\ opt # pre

\* C9: with_implied_vol(v) on a container whose price is already set keeps
\* the price and replaces implied_vol and the six cached quantities by the
\* values derived from v; and price is already set only when the call comes
\* from with_price (a direct call never finds it set).
C9_PriceSetOnlyFromWithPrice ==
    call = "with_implied_vol" =>
        /\ IsFinite(pre.price) =>
               /\ opt.price = pre.price
               /\ opt.implied_vol = arg
               /\ Cached(opt) = Cached(with_implied_vol(Fresh(pre), arg))
        /\ ~IsFinite(pre.price)

\* C10: all eight derived fields are unset or all eight are set, and a
\* populated container never returns to unset.
C10_TwoStates ==
    /\ AllUnset(opt) \/ AllSet(opt)
    /\ AllSet(pre) => AllSet(opt)

C10_Witness ==
    /\ AllUnset(pre)
    /\ AllSet(opt)
    /\ call = "with_price"

====
